---- MODULE Spec2Model ----
(***************************************************************************)
(* Model of src/functions.rs: the serializer combinators ("writers") of    *)
(* cookie-factory.  A writer is a closure taking a cursor (&mut [u8]) and  *)
(* returning the unwritten remainder or GenError::BufferTooSmall(n).       *)
(*                                                                         *)
(* A cursor is modelled as [off, len] over the backing buffer buf: off is  *)
(* the 0-based offset of the cursor's first byte inside the backing        *)
(* buffer, len its length.  Byte k (0-based) of the buffer is buf[k + 1].  *)
(*                                                                         *)
(* A writer value is a record carrying what its closure captured:          *)
(*   [kind |-> "slice", data |-> bytes]      [kind |-> "skip", len |-> n]  *)
(*   [kind |-> "string", data |-> code points]                             *)
(*   [kind |-> "be_u32", i |-> limbs] ...    (same for the other integers) *)
(*   [kind |-> "pair", first |-> w, second |-> w]                          *)
(*   [kind |-> "cond", condition |-> b, f |-> w]                           *)
(*   [kind |-> "_all", values |-> iterable]                                *)
(*   [kind |-> "separated_list", sep |-> w, values |-> iterable]           *)
(*   [kind |-> "position", f |-> w]                                        *)
(* An iterable (Arg: Clone + IntoIterator) is [items, pos]: the sequence   *)
(* of its writers and the 1-based position of the next one to yield.       *)
(*                                                                         *)
(* Unsigned integers wider than TLC's integers are kept as sequences of    *)
(* 16-bit limbs, least significant limb first (u8, u16: one limb; u32:     *)
(* two; u64: four).  Shifts and masks are computed on that form.           *)
(***************************************************************************)
EXTENDS Integers, Sequences, FiniteSets

VARIABLES
    w,      \* the constructed writer value (as left by its last invocation)
    buf0,   \* content of the backing buffer before the invocation
    cur,    \* the cursor handed to the writer
    res,    \* result of the latest invocation (see Run)
    first,  \* result of the first invocation of w
    calls   \* number of invocations of w made so far

vars == <<w, buf0, cur, res, first, calls>>

(*************************** bounds of the model ***************************)
MaxLen == 9
MaxOff == 1
MaxTail == 1
MaxItems == 3
MaxCalls == 2
BufAddr == 4096

(***************************** byte arithmetic *****************************)
\* i >> n on a limb sequence (logical shift right by n bits, same width).
shr(i, n) ==
    LET q == n \div 16
        r == n % 16
        at(j) == IF j <= Len(i) THEN i[j] ELSE 0
    IN  [j \in 1..Len(i) |->
            (at(j + q) \div (2 ^ r)) + ((at(j + q + 1) % (2 ^ r)) * (2 ^ (16 - r)))]

\* i & 0xff on a limb sequence.
and_ff(i) == [j \in 1..Len(i) |-> IF j = 1 THEN i[1] % 256 ELSE 0]

\* (i as u8): the low eight bits.
as_u8(i) == i[1] % 256

\* str::as_bytes: the UTF-8 encoding of a text given as its code points.
utf8(c) ==
    IF c < 128 THEN <<c>>
    ELSE IF c < 2048 THEN <<192 + (c \div 64), 128 + (c % 64)>>
    ELSE IF c < 65536 THEN
        <<224 + (c \div 4096), 128 + ((c \div 64) % 64), 128 + (c % 64)>>
    ELSE <<240 + (c \div 262144), 128 + ((c \div 4096) % 64),
           128 + ((c \div 64) % 64), 128 + (c % 64)>>

RECURSIVE as_bytes(_)
as_bytes(s) == IF s = <<>> THEN <<>> ELSE utf8(Head(s)) \o as_bytes(Tail(s))

(******************************** results **********************************)
BufferTooSmall(n) == [kind |-> "BufferTooSmall", n |-> n]
NoError == [kind |-> "none", n |-> 0]
NoCursor == [off |-> 0, len |-> 0]
NoSpan == [ptr |-> 0, len |-> 0, some |-> FALSE]

\* Ok(out): the remainder, with the memory m = [buf, log] it was run on and
\* the writer value f as the call leaves it.
Ok(out, m, f) ==
    [ok |-> TRUE, out |-> out, err |-> NoError, span |-> NoSpan, m |-> m, f |-> f]

\* Err(e): the cursor is consumed by the call and not returned.
Err(e, m, f) ==
    [ok |-> FALSE, out |-> NoCursor, err |-> e, span |-> NoSpan, m |-> m, f |-> f]

(******************************** cursors **********************************)
\* &mut out[len..]
advance(out, len) == [off |-> out.off + len, len |-> out.len - len]

\* out.as_ptr(): the address of the cursor's first byte.
as_ptr(out) == BufAddr + out.off

\* (&mut out[..len]).copy_from_slice(data)
copy_from_slice(buf, out, len, data) ==
    [k \in 1..Len(buf) |->
        IF k > out.off /\ k <= out.off + len THEN data[k - out.off] ELSE buf[k]]

\* out[0] = bs[1]; out[1] = bs[2]; ...: the indexed stores of an encoder.
index_set(buf, out, bs) ==
    [k \in 1..Len(buf) |->
        IF k > out.off /\ k <= out.off + Len(bs) THEN bs[k - out.off] ELSE buf[k]]

(**************************** primitive writers ****************************)
\* Variant of slice: copies what fits before reporting the missing room.
slice_partial(self, out, m) ==
    LET len == Len(self.data)
    IN  IF out.len < len
        THEN Err(BufferTooSmall(len),
                 [m EXCEPT !.buf = copy_from_slice(@, out, out.len, self.data)], self)
        ELSE Ok(advance(out, len),
                [m EXCEPT !.buf = copy_from_slice(@, out, len, self.data)], self)

slice(self, out, m) ==
    LET len == Len(self.data)
    IN  IF out.len < len
        THEN Err(BufferTooSmall(len), m, self)
        ELSE Ok(advance(out, len),
                [m EXCEPT !.buf = copy_from_slice(@, out, len, self.data)], self)

\* Variant of string: the length is taken in characters, not in bytes.
string_chars(self, out, m) ==
    LET len == Len(self.data)
    IN  IF out.len < len
        THEN Err(BufferTooSmall(len), m, self)
        ELSE Ok(advance(out, len),
                [m EXCEPT !.buf = copy_from_slice(@, out, len, as_bytes(self.data))],
                self)

string(self, out, m) ==
    LET len == Len(as_bytes(self.data))
    IN  IF out.len < len
        THEN Err(BufferTooSmall(len), m, self)
        ELSE Ok(advance(out, len),
                [m EXCEPT !.buf = copy_from_slice(@, out, len, as_bytes(self.data))],
                self)

skip(self, out, m) ==
    IF out.len < self.len
    THEN Err(BufferTooSmall(self.len), m, self)
    ELSE Ok(advance(out, self.len), m, self)

be_u8(self, out, m) ==
    LET len == 1
        i == self.i
    IN  IF out.len < len
        THEN Err(BufferTooSmall(len), m, self)
        ELSE Ok(advance(out, len),
                [m EXCEPT !.buf = index_set(@, out,
                    <<i[1]>>)], self)

be_u16(self, out, m) ==
    LET len == 2
        i == self.i
    IN  IF out.len < len
        THEN Err(BufferTooSmall(len), m, self)
        ELSE Ok(advance(out, len),
                [m EXCEPT !.buf = index_set(@, out,
                    <<as_u8(and_ff(shr(i, 8))), as_u8(and_ff(i))>>)], self)

be_u32(self, out, m) ==
    LET len == 4
        i == self.i
    IN  IF out.len < len
        THEN Err(BufferTooSmall(len), m, self)
        ELSE Ok(advance(out, len),
                [m EXCEPT !.buf = index_set(@, out,
                    <<as_u8(and_ff(shr(i, 24))), as_u8(and_ff(shr(i, 16))),
                      as_u8(and_ff(shr(i, 8))), as_u8(and_ff(i))>>)], self)

be_u64(self, out, m) ==
    LET len == 8
        i == self.i
    IN  IF out.len < len
        THEN Err(BufferTooSmall(len), m, self)
        ELSE Ok(advance(out, len),
                [m EXCEPT !.buf = index_set(@, out,
                    <<as_u8(and_ff(shr(i, 56))), as_u8(and_ff(shr(i, 48))),
                      as_u8(and_ff(shr(i, 40))), as_u8(and_ff(shr(i, 32))),
                      as_u8(and_ff(shr(i, 24))), as_u8(and_ff(shr(i, 16))),
                      as_u8(and_ff(shr(i, 8))), as_u8(and_ff(i))>>)], self)

le_u8(self, out, m) ==
    LET len == 1
        i == self.i
    IN  IF out.len < len
        THEN Err(BufferTooSmall(len), m, self)
        ELSE Ok(advance(out, len),
                [m EXCEPT !.buf = index_set(@, out,
                    <<i[1]>>)], self)

le_u16(self, out, m) ==
    LET len == 2
        i == self.i
    IN  IF out.len < len
        THEN Err(BufferTooSmall(len), m, self)
        ELSE Ok(advance(out, len),
                [m EXCEPT !.buf = index_set(@, out,
                    <<as_u8(and_ff(i)), as_u8(and_ff(shr(i, 8)))>>)], self)

\* Variant of le_u32: the two middle bytes are stored in each other's place.
le_u32_swapped(self, out, m) ==
    LET len == 4
        i == self.i
    IN  IF out.len < len
        THEN Err(BufferTooSmall(len), m, self)
        ELSE Ok(advance(out, len),
                [m EXCEPT !.buf = index_set(@, out,
                    <<as_u8(and_ff(i)), as_u8(and_ff(shr(i, 16))),
                      as_u8(and_ff(shr(i, 8))), as_u8(and_ff(shr(i, 24)))>>)], self)

le_u32(self, out, m) ==
    LET len == 4
        i == self.i
    IN  IF out.len < len
        THEN Err(BufferTooSmall(len), m, self)
        ELSE Ok(advance(out, len),
                [m EXCEPT !.buf = index_set(@, out,
                    <<as_u8(and_ff(i)), as_u8(and_ff(shr(i, 8))),
                      as_u8(and_ff(shr(i, 16))), as_u8(and_ff(shr(i, 24)))>>)], self)

le_u64(self, out, m) ==
    LET len == 8
        i == self.i
    IN  IF out.len < len
        THEN Err(BufferTooSmall(len), m, self)
        ELSE Ok(advance(out, len),
                [m EXCEPT !.buf = index_set(@, out,
                    <<as_u8(and_ff(i)), as_u8(and_ff(shr(i, 8))),
                      as_u8(and_ff(shr(i, 16))), as_u8(and_ff(shr(i, 24))),
                      as_u8(and_ff(shr(i, 32))), as_u8(and_ff(shr(i, 40))),
                      as_u8(and_ff(shr(i, 48))), as_u8(and_ff(shr(i, 56)))>>)], self)

(****************************** iterables **********************************)
\* values.clone(): an independent copy of the captured iterable.
clone(values) == [items |-> values.items, pos |-> values.pos]

\* IntoIterator::into_iter: the iterator over the iterable, by value.
into_iter(values) == values

\* Iterator::next: the next writer and the advanced iterator, or None.
next(it) ==
    IF it.pos <= Len(it.items)
    THEN [some |-> TRUE, v |-> it.items[it.pos], it |-> [it EXCEPT !.pos = @ + 1]]
    ELSE [some |-> FALSE, v |-> [kind |-> "none"], it |-> it]

\* Variant of captured_after: the loop advances the captured iterable itself.
captured_shared(values, it) == it

\* The closure's captured `values` once the call is over.  The loop advanced
\* `it`, which is a clone: the captured iterable is as it was.
captured_after(values, it) == values

(******************************* combinators *******************************)
RECURSIVE Run(_, _, _)

\* Variant of pair: second is run on the cursor given to pair, not on the
\* one first returned.
pair_restart(self, out, m) ==
    LET r1 == Run(self.first, out, m)
    IN  IF ~r1.ok
        THEN [r1 EXCEPT !.f = [self EXCEPT !.first = r1.f]]
        ELSE LET r2 == Run(self.second, out, r1.m)
             IN  [r2 EXCEPT !.f = [self EXCEPT !.first = r1.f, !.second = r2.f]]

\* Variant of pair: a failure of first is dropped and second is run anyway.
pair_skip_failed(self, out, m) ==
    LET r1 == Run(self.first, out, m)
        r2 == Run(self.second, IF r1.ok THEN r1.out ELSE out, r1.m)
    IN  [r2 EXCEPT !.f = [self EXCEPT !.first = r1.f, !.second = r2.f]]

pair(self, out, m) ==
    LET r1 == Run(self.first, out, m)
    IN  IF ~r1.ok
        THEN [r1 EXCEPT !.f = [self EXCEPT !.first = r1.f]]
        ELSE LET r2 == Run(self.second, r1.out, r1.m)
             IN  [r2 EXCEPT !.f = [self EXCEPT !.first = r1.f, !.second = r2.f]]

\* Variant of cond: f is called whatever the condition.
cond_eager(self, out, m) ==
    LET r == Run(self.f, out, m)
    IN  IF self.condition \/ ~r.ok
        THEN [r EXCEPT !.f = [self EXCEPT !.f = r.f]]
        ELSE Ok(out, r.m, self)

cond(self, out, m) ==
    IF self.condition
    THEN LET r == Run(self.f, out, m)
         IN  [r EXCEPT !.f = [self EXCEPT !.f = r.f]]
    ELSE Ok(out, m, self)

\* for v in it { out = v(out)?; }  Ok(out)
RECURSIVE all_loop(_, _, _)
all_loop(it, out, m) ==
    LET n == next(it)
    IN  IF ~n.some
        THEN [r |-> Ok(out, m, n.v), it |-> n.it]
        ELSE LET r == Run(n.v, out, m)
             IN  IF ~r.ok
                 THEN [r |-> r, it |-> n.it]
                 ELSE all_loop(n.it, r.out, r.m)

\* Variant of _all: the collection is walked from its last writer to its first.
_all_rev(self, out, m) ==
    LET items == self.values.items
        it == [items |-> [k \in 1..Len(items) |-> items[Len(items) + 1 - k]],
               pos |-> self.values.pos]
        l == all_loop(it, out, m)
    IN  [l.r EXCEPT !.f = self]

_all(self, out, m) ==
    LET it == into_iter(clone(self.values))
        l == all_loop(it, out, m)
    IN  [l.r EXCEPT !.f = [self EXCEPT !.values = captured_after(@, l.it)]]

\* for v in it { out = sep(out)?; out = v(out)?; }  Ok(out)
RECURSIVE sep_loop(_, _, _, _)
sep_loop(sep, it, out, m) ==
    LET n == next(it)
    IN  IF ~n.some
        THEN [r |-> Ok(out, m, n.v), it |-> n.it, sep |-> sep]
        ELSE LET rs == Run(sep, out, m)
             IN  IF ~rs.ok
                 THEN [r |-> rs, it |-> n.it, sep |-> rs.f]
                 ELSE LET rv == Run(n.v, rs.out, rs.m)
                      IN  IF ~rv.ok
                          THEN [r |-> rv, it |-> n.it, sep |-> rs.f]
                          ELSE sep_loop(rs.f, n.it, rv.out, rv.m)

\* Variant of separated_list: sep is written before every element, the
\* first one included.
separated_list_leading(self, out, m) ==
    LET it == into_iter(clone(self.values))
        l == sep_loop(self.sep, it, out, m)
    IN  [l.r EXCEPT !.f = [self EXCEPT !.sep = l.sep]]

separated_list(self, out, m) ==
    LET it == into_iter(clone(self.values))
        n == next(it)
        after(l) == [l.r EXCEPT !.f = [self EXCEPT !.sep = l.sep,
                                                   !.values = captured_after(@, l.it)]]
    IN  IF ~n.some
        THEN after([r |-> Ok(out, m, n.v), it |-> n.it, sep |-> self.sep])
        ELSE LET r == Run(n.v, out, m)
             IN  IF ~r.ok
                 THEN after([r |-> r, it |-> n.it, sep |-> self.sep])
                 ELSE after(sep_loop(self.sep, n.it, r.out, r.m))

\* f(out) for f: SerializeFn.  Every invocation is recorded in m.log with the
\* writer invoked and the cursor it was given.
Run(f, out, m) ==
    LET m1 == [m EXCEPT !.log = Append(@, [f |-> f, at |-> out.off, len |-> out.len])]
    IN  CASE f.kind = "slice" -> slice(f, out, m1)
          [] f.kind = "string" -> string(f, out, m1)
          [] f.kind = "skip" -> skip(f, out, m1)
          [] f.kind = "be_u8" -> be_u8(f, out, m1)
          [] f.kind = "be_u16" -> be_u16(f, out, m1)
          [] f.kind = "be_u32" -> be_u32(f, out, m1)
          [] f.kind = "be_u64" -> be_u64(f, out, m1)
          [] f.kind = "le_u8" -> le_u8(f, out, m1)
          [] f.kind = "le_u16" -> le_u16(f, out, m1)
          [] f.kind = "le_u32" -> le_u32(f, out, m1)
          [] f.kind = "le_u64" -> le_u64(f, out, m1)
          [] f.kind = "pair" -> pair(f, out, m1)
          [] f.kind = "cond" -> cond(f, out, m1)
          [] f.kind = "_all" -> _all(f, out, m1)
          [] f.kind = "separated_list" -> separated_list(f, out, m1)

\* std::slice::from_raw_parts_mut(ptr, len)
from_raw_parts_mut(ptr, len) == [ptr |-> ptr, len |-> len, some |-> TRUE]

\* Variant of position: the start address is read after f has run.
position_late_ptr(self, out, m) ==
    LET r == Run(self.f, out, m)
        ptr == as_ptr(r.out)
        len == as_ptr(r.out) - ptr
    IN  IF ~r.ok
        THEN [r EXCEPT !.f = [self EXCEPT !.f = r.f]]
        ELSE [r EXCEPT !.span = from_raw_parts_mut(ptr, len),
                       !.f = [self EXCEPT !.f = r.f]]

position(self, out, m) ==
    LET ptr == as_ptr(out)
        r == Run(self.f, out, m)
        len == as_ptr(r.out) - ptr
    IN  IF ~r.ok
        THEN [r EXCEPT !.f = [self EXCEPT !.f = r.f]]
        ELSE [r EXCEPT !.span = from_raw_parts_mut(ptr, len),
                       !.f = [self EXCEPT !.f = r.f]]

\* Calling a constructed writer value: position(f) is not a SerializeFn (it
\* returns a pair) and can only be called by the user.
Call(f, out, m) ==
    IF f.kind = "position" THEN position(f, out, m) ELSE Run(f, out, m)

(************************** inputs of the actions **************************)
Slice(data) == [kind |-> "slice", data |-> data]
String(data) == [kind |-> "string", data |-> data]
Skip(len) == [kind |-> "skip", len |-> len]
IntW(kind, i) == [kind |-> kind, i |-> i]
Pair(a, b) == [kind |-> "pair", first |-> a, second |-> b]
Cond(c, f) == [kind |-> "cond", condition |-> c, f |-> f]
All(items) == [kind |-> "_all", values |-> [items |-> items, pos |-> 1]]
SeparatedList(sep, items) ==
    [kind |-> "separated_list", sep |-> sep, values |-> [items |-> items, pos |-> 1]]
Position(f) == [kind |-> "position", f |-> f]

\* Payloads: empty, short, and one byte longer than any cursor of the model.
Datas == {<<>>, <<7>>, <<1, 2, 3>>, [k \in 1..(MaxLen + 1) |-> 100 + k]}
\* Texts as code points: "", "hi", "h" U+00E9, U+20AC, U+1F600.
Texts == {<<>>, <<104, 105>>, <<104, 233>>, <<8364>>, <<128512>>}
Lens == {0, 2, 5, MaxLen + 1}
\* 0x00, 0x01, 0x80, 0xFF
U8s == {<<0>>, <<1>>, <<128>>, <<255>>}
\* 0x0102, 0x8000, 0xFFFE, 0x0001
U16s == {<<258>>, <<32768>>, <<65534>>, <<1>>}
\* 0x01020304, 0xDEADBEEF, 0x80000000, 0x000000FF
U32s == {<<772, 258>>, <<48879, 57005>>, <<0, 32768>>, <<255, 0>>}
\* 0x0102030405060708, 0xFFEEDDCCBBAA9988, 0x8000000000000001
U64s == {<<1800, 1286, 772, 258>>, <<39304, 48042, 56780, 65518>>, <<1, 0, 0, 32768>>}

Comma == IntW("be_u8", <<44>>)
Leaves ==
    {IntW("be_u8", <<1>>), IntW("be_u16", <<515>>), Skip(1), Slice(<<7, 8, 9>>),
     IntW("le_u32", <<3085, 2571>>), IntW("be_u64", <<1800, 1286, 772, 258>>)}
Nested ==
    {Cond(FALSE, IntW("be_u64", <<1800, 1286, 772, 258>>)),
     Pair(IntW("be_u8", <<1>>), Skip(1)),
     All(<<IntW("be_u16", <<515>>), IntW("be_u8", <<1>>)>>),
     SeparatedList(Comma, <<IntW("be_u8", <<1>>), IntW("be_u8", <<2>>)>>)}
Sub == Leaves \cup Nested

SeqsUpTo(S, n) == UNION {[1..k -> S] : k \in 0..n}
AllItems ==
    {IntW("be_u8", <<1>>), IntW("be_u16", <<515>>), Pair(Skip(1), Slice(<<7, 8, 9>>))}
ListItems == {IntW("be_u8", <<1>>), IntW("be_u8", <<2>>), IntW("be_u8", <<3>>)}
Seps == {Comma, Pair(Comma, String(<<32>>))}

NoWriter == [kind |-> "none"]
NoResult ==
    [ok |-> FALSE, out |-> NoCursor, err |-> NoError, span |-> NoSpan,
     m |-> [buf |-> <<>>, log |-> <<>>], f |-> NoWriter]

(***************************** state machine *******************************)
\* A caller-allocated buffer with content the writers never produce, and a
\* cursor over it: the whole buffer, or a sub-slice leaving MaxOff bytes
\* before and MaxTail bytes after.
Init ==
    /\ \E len \in 0..MaxLen, off \in {0, MaxOff}, tail \in {0, MaxTail} :
        /\ buf0 = [k \in 1..(off + len + tail) |-> 80 + k]
        /\ cur = [off |-> off, len |-> len]
    /\ w = NoWriter
    /\ res = NoResult
    /\ first = NoResult
    /\ calls = 0

\* The writer f, just constructed, is called on the cursor.
Invoke(f) ==
    LET r == Call(f, cur, [buf |-> buf0, log |-> <<>>])
    IN  /\ w' = r.f
        /\ res' = r
        /\ first' = r
        /\ calls' = 1

DoSlice ==
    /\ calls = 0
    /\ \E data \in Datas : Invoke(Slice(data))
    /\ UNCHANGED <<buf0, cur>>

DoString ==
    /\ calls = 0
    /\ \E data \in Texts : Invoke(String(data))
    /\ UNCHANGED <<buf0, cur>>

DoSkip ==
    /\ calls = 0
    /\ \E len \in Lens : Invoke(Skip(len))
    /\ UNCHANGED <<buf0, cur>>

DoBeU8 ==
    /\ calls = 0
    /\ \E i \in U8s : Invoke(IntW("be_u8", i))
    /\ UNCHANGED <<buf0, cur>>

DoBeU16 ==
    /\ calls = 0
    /\ \E i \in U16s : Invoke(IntW("be_u16", i))
    /\ UNCHANGED <<buf0, cur>>

DoBeU32 ==
    /\ calls = 0
    /\ \E i \in U32s : Invoke(IntW("be_u32", i))
    /\ UNCHANGED <<buf0, cur>>

DoBeU64 ==
    /\ calls = 0
    /\ \E i \in U64s : Invoke(IntW("be_u64", i))
    /\ UNCHANGED <<buf0, cur>>

DoLeU8 ==
    /\ calls = 0
    /\ \E i \in U8s : Invoke(IntW("le_u8", i))
    /\ UNCHANGED <<buf0, cur>>

DoLeU16 ==
    /\ calls = 0
    /\ \E i \in U16s : Invoke(IntW("le_u16", i))
    /\ UNCHANGED <<buf0, cur>>

DoLeU32 ==
    /\ calls = 0
    /\ \E i \in U32s : Invoke(IntW("le_u32", i))
    /\ UNCHANGED <<buf0, cur>>

DoLeU64 ==
    /\ calls = 0
    /\ \E i \in U64s : Invoke(IntW("le_u64", i))
    /\ UNCHANGED <<buf0, cur>>

DoPair ==
    /\ calls = 0
    /\ \E a \in Sub, b \in Sub : Invoke(Pair(a, b))
    /\ UNCHANGED <<buf0, cur>>

DoCond ==
    /\ calls = 0
    /\ \E c \in BOOLEAN, f \in Sub : Invoke(Cond(c, f))
    /\ UNCHANGED <<buf0, cur>>

DoAll ==
    /\ calls = 0
    /\ \E items \in SeqsUpTo(AllItems, MaxItems) : Invoke(All(items))
    /\ UNCHANGED <<buf0, cur>>

DoSeparatedList ==
    /\ calls = 0
    /\ \E sep \in Seps, items \in SeqsUpTo(ListItems, MaxItems) :
        Invoke(SeparatedList(sep, items))
    /\ UNCHANGED <<buf0, cur>>

DoPosition ==
    /\ calls = 0
    /\ \E f \in Sub : Invoke(Position(f))
    /\ UNCHANGED <<buf0, cur>>

\* The same writer value is called again, on a fresh buffer of the same
\* length and content and a cursor over the same range.
Reinvoke ==
    /\ calls >= 1
    /\ calls < MaxCalls
    /\ LET r == Call(w, cur, [buf |-> buf0, log |-> <<>>])
       IN  /\ w' = r.f
           /\ res' = r
    /\ calls' = calls + 1
    /\ UNCHANGED <<buf0, cur, first>>

Next ==
    \/ DoSlice \/ DoString \/ DoSkip
    \/ DoBeU8 \/ DoBeU16 \/ DoBeU32 \/ DoBeU64
    \/ DoLeU8 \/ DoLeU16 \/ DoLeU32 \/ DoLeU64
    \/ DoPair \/ DoCond \/ DoAll \/ DoSeparatedList \/ DoPosition
    \/ Reinvoke

Spec == Init /\ [][Next]_vars

(***************************************************************************)
(* Properties.  What a writer is expected to emit is stated here from its  *)
(* structure alone, without running it.                                    *)
(***************************************************************************)
PrimKinds ==
    {"slice", "string", "skip", "be_u8", "be_u16", "be_u32", "be_u64",
     "le_u8", "le_u16", "le_u32", "le_u64"}
BeKinds == {"be_u8", "be_u16", "be_u32", "be_u64"}
LeKinds == {"le_u8", "le_u16", "le_u32", "le_u64"}
IsPrim(f) == f.kind \in PrimKinds

\* Width in bytes of an integer encoder.
Width(f) ==
    CASE f.kind \in {"be_u8", "le_u8"} -> 1
      [] f.kind \in {"be_u16", "le_u16"} -> 2
      [] f.kind \in {"be_u32", "le_u32"} -> 4
      [] f.kind \in {"be_u64", "le_u64"} -> 8

\* Number of bytes of the UTF-8 form of code point c.
Utf8Len(c) == IF c < 128 THEN 1 ELSE IF c < 2048 THEN 2 ELSE IF c < 65536 THEN 3 ELSE 4

RECURSIVE SumSeq(_)
SumSeq(q) == IF q = <<>> THEN 0 ELSE Head(q) + SumSeq(Tail(q))

\* N: the payload length a primitive requires.
Need(f) ==
    CASE f.kind = "slice" -> Len(f.data)
      [] f.kind = "string" -> SumSeq([k \in 1..Len(f.data) |-> Utf8Len(f.data[k])])
      [] f.kind = "skip" -> f.len
      [] OTHER -> Width(f)

\* (i >> 8*s) & 0xff: the byte of significance s of the integer i.
ByteAt(i, s) == (i[(s \div 2) + 1] \div (IF s % 2 = 1 THEN 256 ELSE 1)) % 256

\* An emitted byte is <<b>>; a byte left as the writer found it is <<>>.
Hole == <<>>
Bytes(bs) == [k \in 1..Len(bs) |-> <<bs[k]>>]

\* The bytes a primitive emits; skip reserves bytes without writing them.
Payload(f) ==
    CASE f.kind = "slice" -> Bytes(f.data)
      [] f.kind = "string" -> Bytes(as_bytes(f.data))
      [] f.kind = "skip" -> [k \in 1..f.len |-> Hole]
      [] f.kind \in BeKinds -> [k \in 1..Width(f) |-> <<ByteAt(f.i, Width(f) - k)>>]
      [] f.kind \in LeKinds -> [k \in 1..Width(f) |-> <<ByteAt(f.i, k - 1)>>]

RECURSIVE Flat(_)
RECURSIVE FlatSeq(_)
RECURSIVE FlatSep(_, _)
\* The primitives a writer runs, in order, when every one of them succeeds.
Flat(f) ==
    CASE IsPrim(f) -> <<f>>
      [] f.kind = "pair" -> Flat(f.first) \o Flat(f.second)
      [] f.kind = "cond" -> IF f.condition THEN Flat(f.f) ELSE <<>>
      [] f.kind = "_all" -> FlatSeq(f.values.items)
      [] f.kind = "separated_list" -> FlatSep(f.sep, f.values.items)
      [] f.kind = "position" -> Flat(f.f)
FlatSeq(q) == IF q = <<>> THEN <<>> ELSE Flat(Head(q)) \o FlatSeq(Tail(q))
\* e1 sep e2 sep ... sep en
FlatSep(sep, q) ==
    IF q = <<>> THEN <<>>
    ELSE IF Len(q) = 1 THEN Flat(q[1])
    ELSE Flat(q[1]) \o Flat(sep) \o FlatSep(sep, Tail(q))

RECURSIVE Concat(_)
Concat(q) == IF q = <<>> THEN <<>> ELSE Head(q) \o Concat(Tail(q))

\* The bytes emitted by the primitives ps run one after the other.
Emitted(ps) == Concat([k \in 1..Len(ps) |-> Payload(ps[k])])
TotalNeed(ps) == SumSeq([k \in 1..Len(ps) |-> Need(ps[k])])

\* The bytes of `post` from offset off on are those of `exp`, a hole standing
\* for the byte of `pre` at that place.
Holds(post, pre, off, exp) ==
    /\ off + Len(exp) <= Len(post)
    /\ \A k \in 1..Len(exp) :
        post[off + k] = IF exp[k] = Hole THEN pre[off + k] ELSE exp[k][1]

\* The bytes of post and pre agree at every offset outside [from, to).
SameOutside(post, pre, from, to) ==
    /\ Len(post) = Len(pre)
    /\ \A k \in 1..Len(pre) : (k <= from \/ k > to) => post[k] = pre[k]

Called == calls >= 1
Log == res.m.log
Buf == res.m.buf
PrimsRun == SelectSeq([k \in 1..Len(Log) |-> Log[k].f], IsPrim)
LastCall == Log[Len(Log)]
\* What a caller observes of a result.
Outcome(r) == [ok |-> r.ok, out |-> r.out, err |-> r.err, span |-> r.span, buf |-> r.m.buf]
Fresh == [buf |-> buf0, log |-> <<>>]

\* C1: a primitive writer of payload length N called on a cursor of length
\* L < N returns BufferTooSmall(N) and leaves every byte of the buffer as it was.
C1_PrimitiveTooSmall ==
    (Called /\ IsPrim(w) /\ cur.len < Need(w)) =>
        /\ ~res.ok
        /\ res.err = BufferTooSmall(Need(w))
        /\ Buf = buf0

C1_Witness ==
    /\ Called /\ w.kind = "string" /\ w.data = <<104, 233>>
    /\ cur.len = 2 /\ ~res.ok /\ res.err.n = 3

\* C2: a successful call returns a suffix of the input cursor: the start has
\* moved forward by the sum of the payload lengths of the primitives that ran
\* and the length has shrunk by as much, within the bounds of the cursor.
C2_SuffixCursor ==
    (Called /\ res.ok) =>
        LET n == TotalNeed(PrimsRun)
        IN  /\ res.out.off = cur.off + n
            /\ res.out.len = cur.len - n
            /\ res.out.off + res.out.len = cur.off + cur.len
            /\ cur.len - res.out.len >= 0
            /\ res.out.len >= 0
            /\ res.out.off + res.out.len <= Len(Buf)
            /\ SameOutside(Buf, buf0, cur.off, cur.off + n)

C2_Witness ==
    /\ Called /\ res.ok /\ w.kind = "pair" /\ w.second.kind = "separated_list"
    /\ Len(PrimsRun) >= 4 /\ res.out.off = cur.off + 6 /\ cur.off > 0

\* The bytes of the buffer b at offsets [from, from + n).
Range(b, from, n) == [k \in 1..n |-> b[from + k]]
Reverse(q) == [k \in 1..Len(q) |-> q[Len(q) + 1 - k]]

\* C3: a big-endian encoder of width w writes byte k = (i >> 8*(w-1-k)) & 0xff,
\* most significant byte first; a little-endian encoder writes byte
\* k = (i >> 8*k) & 0xff, the big-endian bytes in reverse order; 0x01020304
\* gives 01 02 03 04 big-endian and 04 03 02 01 little-endian, and nothing
\* remains of a 4-byte cursor.
C3_Endianness ==
    (Called /\ w.kind \in (BeKinds \cup LeKinds) /\ cur.len >= Width(w)) =>
        LET n == Width(w)
            written == Range(Buf, cur.off, n)
            be == [k \in 1..n |-> ByteAt(w.i, n - k)]
        IN  /\ res.ok
            /\ res.out = [off |-> cur.off + n, len |-> cur.len - n]
            /\ w.kind \in BeKinds => written = be
            /\ w.kind \in LeKinds => written = Reverse(be)
            /\ w.kind \in LeKinds => \A k \in 1..n : written[k] = ByteAt(w.i, k - 1)
            /\ (w.i = <<772, 258>> /\ w.kind = "be_u32") => written = <<1, 2, 3, 4>>
            /\ (w.i = <<772, 258>> /\ w.kind = "le_u32") => written = <<4, 3, 2, 1>>
            /\ (n = 4 /\ cur.len = 4) => res.out.len = 0
            /\ SameOutside(Buf, buf0, cur.off, cur.off + n)

C3_Witness ==
    /\ Called /\ w.kind = "le_u64" /\ w.i = <<39304, 48042, 56780, 65518>>
    /\ cur.len >= 8 /\ res.ok
    /\ Range(Buf, cur.off, 8) = <<136, 153, 170, 187, 204, 221, 238, 255>>

\* Number of calls recorded in the log that were made to the writer f.
CallsTo(f) == Cardinality({k \in 1..Len(Log) : Log[k].f = f})

\* C4: separated_list(sep, values) over n element writers, on a buffer large
\* enough, emits e1 sep e2 sep ... sep en, calling sep max(0, n-1) times; with
\* n = 0 it succeeds, writes nothing and returns the input cursor; with n = 1
\* it emits the element alone and never calls sep.
C4_SeparatedList ==
    (Called /\ w.kind = "separated_list") =>
        LET items == w.values.items
            n == Len(items)
            exp == FlatSep(w.sep, items)
        IN  cur.len >= TotalNeed(exp) =>
                /\ res.ok
                /\ PrimsRun = exp
                /\ Holds(Buf, buf0, cur.off, Emitted(exp))
                /\ SameOutside(Buf, buf0, cur.off, cur.off + TotalNeed(exp))
                /\ res.out = [off |-> cur.off + TotalNeed(exp),
                              len |-> cur.len - TotalNeed(exp)]
                /\ CallsTo(w.sep) = (IF n = 0 THEN 0 ELSE n - 1)
                /\ n = 0 => (res.out = cur /\ Buf = buf0 /\ Len(Log) = 1)
                /\ n = 1 => (CallsTo(w.sep) = 0 /\ PrimsRun = Flat(items[1]))
                /\ n >= 1 => (Log[2].f = items[1]
                              /\ LastCall.f = Flat(items[n])[Len(Flat(items[n]))])

C4_Witness ==
    /\ Called /\ w.kind = "separated_list" /\ w.sep = Comma
    /\ w.values.items = <<IntW("be_u8", <<1>>), IntW("be_u8", <<2>>), IntW("be_u8", <<3>>)>>
    /\ res.ok /\ Range(Buf, cur.off, 5) = <<1, 44, 2, 44, 3>>
    /\ CallsTo(Comma) = 2

\* C5: position(f), when f succeeds consuming N bytes, returns (span, rest):
\* span is the first N bytes of the input cursor and holds what f emitted,
\* rest is the cursor f returned, of length input length - N; span and rest do
\* not overlap and together cover the input cursor.  When f fails, position
\* returns f's error and no span.
C5_Position ==
    (Called /\ w.kind = "position") =>
        LET inner == Run(w.f, cur, Fresh)
            exp == Flat(w.f)
            n == TotalNeed(exp)
        IN  /\ res.ok = inner.ok
            /\ res.ok =>
                /\ res.span.some
                /\ res.span.ptr = BufAddr + cur.off
                /\ res.span.len = n
                /\ Holds(Buf, buf0, res.span.ptr - BufAddr, Emitted(exp))
                /\ res.out = inner.out
                /\ res.out.len = cur.len - n
                /\ res.span.ptr + res.span.len = BufAddr + res.out.off
                /\ res.span.len + res.out.len = cur.len
            /\ ~res.ok =>
                /\ res.err = inner.err
                /\ res.err.kind = "BufferTooSmall"
                /\ res.span = NoSpan

C5_Witness ==
    /\ Called /\ w.kind = "position" /\ w.f.kind = "separated_list"
    /\ res.ok /\ res.span.len = 3 /\ res.span.ptr > BufAddr /\ res.out.len > 0
    /\ Range(Buf, res.span.ptr - BufAddr, 3) = <<1, 44, 2>>

\* C6: cond(false, f) succeeds for every f and every cursor, without calling
\* f: the returned cursor is the input cursor and no byte changes;
\* cond(true, f) returns what f returns on the same cursor.
C6_Cond ==
    (Called /\ w.kind = "cond") =>
        /\ ~w.condition =>
            /\ res.ok
            /\ res.out = cur
            /\ Buf = buf0
            /\ Len(Log) = 1
        /\ w.condition =>
            /\ Outcome(res) = Outcome(Run(w.f, cur, Fresh))
            /\ Len(Log) >= 2 /\ Log[2].f = w.f

C6_Witness ==
    /\ Called /\ w.kind = "cond" /\ ~w.condition /\ w.f.kind = "be_u64"
    /\ cur.len = 0 /\ ~Run(w.f, cur, Fresh).ok /\ res.ok

\* The recorded calls whose primitive had less room than its payload needs.
Failing == {k \in 1..Len(Log) : IsPrim(Log[k].f) /\ Log[k].len < Need(Log[k].f)}

\* C7: a failure is forwarded unchanged through every combinator: the result
\* is BufferTooSmall(n) with n the requirement of the one failing primitive,
\* and no writer is called after the failing step; pair(first, second) with
\* first failing returns first's error and never calls second.
C7_FailFast ==
    (Called /\ ~res.ok) =>
        /\ Failing = {Len(Log)}
        /\ res.err = BufferTooSmall(Need(LastCall.f))
        /\ w.kind = "pair" =>
            LET r1 == Run(w.first, cur, Fresh)
            IN  ~r1.ok =>
                    /\ res.err = r1.err
                    /\ Buf = r1.m.buf
                    /\ Len(Log) = 1 + Len(r1.m.log)
                    /\ \A k \in 1..Len(r1.m.log) : Log[k + 1] = r1.m.log[k]

C7_Witness ==
    /\ Called /\ ~res.ok /\ w.kind = "pair"
    /\ w.first.kind = "_all" /\ w.second.kind = "be_u64"
    /\ cur.len = 2 /\ res.err.n = 1 /\ Len(Log) = 4

\* C8: no rollback: when a composite fails at some step, the bytes written by
\* the steps that succeeded stay as written, the failing primitive changes no
\* byte, and every byte at or beyond the failing step's start keeps the value
\* it had before the call.
C8_NoRollback ==
    (Called /\ ~res.ok) =>
        LET done == SubSeq(PrimsRun, 1, Len(PrimsRun) - 1)
        IN  /\ LastCall.at = cur.off + TotalNeed(done)
            /\ Holds(Buf, buf0, cur.off, Emitted(done))
            /\ SameOutside(Buf, buf0, cur.off, LastCall.at)

C8_Witness ==
    /\ Called /\ ~res.ok /\ w.kind = "separated_list" /\ Len(w.values.items) = 3
    /\ cur.len = 4 /\ LastCall.at = cur.off + 4
    /\ Range(Buf, cur.off, 4) = <<1, 44, 2, 44>>
    /\ Len(Buf) > cur.off + 4 /\ Buf[cur.off + 5] = buf0[cur.off + 5]

RECURSIVE Chain(_)
\* pair(v1, pair(v2, ... vn))
Chain(q) == IF Len(q) = 1 THEN q[1] ELSE Pair(q[1], Chain(Tail(q)))
PrimCalls(log) == SelectSeq(log, LAMBDA e : IsPrim(e.f))

\* C9: _all(values) calls the writers in collection order, each on the cursor
\* the previous one returned: its result, the buffer and the primitive calls
\* made are those of pair(v1, pair(v2, ...)), on success and on the first
\* failure; on an empty collection it succeeds with the input cursor and no
\* byte written.
C9_AllIsPairChain ==
    (Called /\ w.kind = "_all") =>
        LET items == w.values.items
        IN  /\ items = <<>> =>
                (res.ok /\ res.out = cur /\ Buf = buf0 /\ Len(Log) = 1)
            /\ items # <<>> =>
                LET c == Run(Chain(items), cur, Fresh)
                IN  /\ Outcome(res) = Outcome(c)
                    /\ PrimCalls(Log) = PrimCalls(c.m.log)
                    /\ Log[2] = [f |-> items[1], at |-> cur.off, len |-> cur.len]

C9_Witness ==
    /\ Called /\ w.kind = "_all" /\ Len(w.values.items) = 3
    /\ w.values.items[1] # w.values.items[2]
    /\ res.ok /\ res.out.off = cur.off + 7 /\ Buf # buf0

\* C10: a writer keeps no state between calls: the same writer value called
\* again on a fresh buffer of equal length and content gives the same result,
\* the same returned cursor and the same bytes, _all and separated_list
\* iterating their collection from its first element each time.
C10_Reinvocable ==
    calls >= 2 =>
        /\ Outcome(res) = Outcome(first)
        /\ PrimCalls(Log) = PrimCalls(first.m.log)

C10_Witness ==
    /\ calls = 2 /\ w.kind = "_all" /\ Len(w.values.items) = 3
    /\ res.ok /\ Buf # buf0 /\ Len(PrimsRun) >= 3

====
